---- MODULE Spec2Model ----
(***************************************************************************)
(* A model of the serverless-s3-sync plugin (class ServerlessS3Sync): the  *)
(* lifecycle hooks, the four orchestrators sync, clear, syncMetadata and   *)
(* syncBucketTags, and the promise structure that joins their per-target   *)
(* work.  One behaviour is one run of one hook over a list of targets.     *)
(*                                                                         *)
(* JavaScript runs one callback at a time, so one action is one callback:  *)
(* the synchronous body of an orchestrator (its s3Sync.map), the reaction  *)
(* to a resolved bucket name, the exit of execSync, an 'end' or 'error'    *)
(* event of an uploader, the completion of a tagging call.                 *)
(***************************************************************************)
EXTENDS Integers, Sequences, FiniteSets, TLC

VARIABLES
  cfg,            \* custom.s3Sync: the target list, fixed for the run
  optBucket,      \* options.bucket ("" when not given)
  hook,           \* the lifecycle hook this run executes
  started,        \* the orchestrators that have been called
  threw,          \* the orchestrators whose call threw synchronously
  tstate,         \* per orchestrator and target: the state of its promise
  result,         \* per orchestrator: the state of the promise it returned
  filesToSync,    \* syncMetadata: filesToSync.length of each target
  copiesInFlight, \* syncMetadata: copyObject calls issued and not ended
  lookups,        \* describeStacks calls issued for each target
  resolveCalls,   \* getBucketName calls made for each target
  preExit,        \* exit of each target's preCommand: "none", "ok", "fail"
  issued,         \* every external operation issued: <<phase, target, kind>>
  halted,         \* the process died of an uncaught exception
  noSync,         \* the constant noSync of the constructor: getNoSync()
  stackOutputs,   \* the OutputKeys of the outputs of the deployed stack
  fired,          \* the hook function has been called
  resolved,       \* per orchestrator and target: what getBucketName settled to
  \* the rule matcher: getS3Params of sync and the rule pass of syncMetadata
  params,         \* s.params: the rule list of the target
  env,            \* options.env ("" when not given)
  s3Params,       \* per local file: what getS3Params handed to its callback
  ruleFiles,      \* filesToSync as the rule pass of syncMetadata built it
  called,         \* the matcher calls made so far
  \* the parameters of one metadata copy and the prefixes of the phases
  target,         \* the fields of s the copy reads: bucketPrefix, defaultContentType
  file,           \* the entry of filesToSync: name and params
  copyParams,     \* the params object handed to copyObject
  phasePrefix,    \* the Prefix handed to uploadDir and to deleteDir
  built,          \* the parameter objects built so far
  \* mergeTags
  tagSetRead,     \* data.TagSet as getBucketTagging returned it
  existingTagSet, \* the TagSet read from the bucket, mutated by mergeTags
  tagsToMerge,    \* s.bucketTags as a list of {Key, Value}
  merges,         \* the number of mergeTags calls made
  \* the tag phase of the targets that write one bucket
  bucketTagSet,   \* the TagSet the bucket holds
  desiredTags,    \* per target: s.bucketTags as a list of {Key, Value}
  tagCall,        \* per target: the position of its read-merge-write chain
  readTagSet,     \* per target: data.TagSet as its getBucketTagging returned it
  putTagSet,      \* per target: Tagging.TagSet of its putBucketTagging
  \* the progress lines of sync, clear and syncMetadata
  progressOf,     \* the phase whose progress line this is
  progressAmount, \* uploader.progressAmount at the last 'progress' event
  progressTotal,  \* uploader.progressTotal at the last 'progress' event
  copyCount,      \* filesToSync.length of the metadata phase
  ended,          \* the indexes of filesToSync whose copy has ended
  percent,        \* the closure variable percent
  emitted,        \* the percentages written to the progress line, in order
  \* the upload of one target and the reconciliation of its prefix
  deleteRemoved,  \* s.deleteRemoved as a set: empty when the target omits it
  localKeys,      \* the keys of the files under localDir
  remoteKeys,     \* the keys of the objects under the prefix
  remoteListed,   \* the keys under the prefix when uploadDir was called
  uploadDirParams,\* the params handed to uploadDir, as a set: empty before the call
  uploadEnded     \* the event the uploader finished with: "none", "end", "error"

runVars == <<cfg, optBucket, hook, started, threw, tstate, result, filesToSync,
             copiesInFlight, lookups, resolveCalls, preExit, issued, halted,
             noSync, stackOutputs, fired, resolved>>
ruleVars == <<params, env, s3Params, ruleFiles, called>>
copyVars == <<target, file, copyParams, phasePrefix, built>>
tagVars == <<tagSetRead, existingTagSet, tagsToMerge, merges>>
flowVars == <<bucketTagSet, desiredTags, tagCall, readTagSet, putTagSet>>
progVars == <<progressOf, progressAmount, progressTotal, copyCount, ended,
              percent, emitted>>
delVars == <<deleteRemoved, localKeys, remoteKeys, remoteListed, uploadDirParams,
             uploadEnded>>

notRunVars == <<ruleVars, copyVars, tagVars, flowVars, progVars, delVars>>
notRuleVars == <<runVars, copyVars, tagVars, flowVars, progVars, delVars>>
notCopyVars == <<runVars, ruleVars, tagVars, flowVars, progVars, delVars>>
notTagVars == <<runVars, ruleVars, copyVars, flowVars, progVars, delVars>>
notFlowVars == <<runVars, ruleVars, copyVars, tagVars, progVars, delVars>>
notProgVars == <<runVars, ruleVars, copyVars, tagVars, flowVars, delVars>>
notDelVars == <<runVars, ruleVars, copyVars, tagVars, flowVars, progVars>>

vars == <<runVars, ruleVars, copyVars, tagVars, flowVars, progVars, delVars>>

----------------------------------------------------------------------------
(* Bounds of the model *)

NumTargets == 2
MaxFiles == 6

(* Program constant: params.maxAsyncS3 handed to uploadDir *)
maxAsyncS3 == 5

Targets == 1..NumTargets
Phases == {"sync", "metadata", "tags", "clear"}
Hooks == {"deploy", "remove", "cmdSync", "cmdMetadata", "cmdTags"}

(* getNoSync(): the --nos3sync option, or custom.s3Sync.noSync compared *)
(* as an upper-cased string with 'TRUE'                                  *)
GetNoSync(nos3sync, custom) ==
  IF nos3sync THEN TRUE ELSE custom \in {"true", "TRUE"}

NoSyncValues ==
  { GetNoSync(o, c) : o \in BOOLEAN, c \in {"absent", "false", "true", "TRUE"} }

(* The value of resolved before the promise of getBucketName settles *)
Unsettled == "?"

(* The bucket named literally, and the value of the stack output *)
LiteralBucket == "b1"
OutputBucket == "b2"

(* A target descriptor.  "" stands for an absent (falsy) string field;    *)
(* preCommand and bucketTags record whether the field is configured.      *)
TargetConfig ==
  [enabled : BOOLEAN,
   bucketName : {"", LiteralBucket},
   bucketNameKey : {"", "BucketKey"},
   localDir : {"", "dist"},
   preCommand : BOOLEAN,
   bucketTags : BOOLEAN]

(* Fields an orchestrator of the hook never reads keep their default. *)
ReadsLocalDir(h) == h \in {"deploy", "cmdSync", "cmdMetadata"}
ReadsPreCommand(h) == h \in {"deploy", "cmdSync"}
ReadsBucketTags(h) == h \in {"deploy", "cmdTags"}

ConfigsOf(h) ==
  { s \in TargetConfig :
      /\ ReadsLocalDir(h) \/ s.localDir = "dist"
      /\ ReadsPreCommand(h) \/ s.preCommand = FALSE
      /\ ReadsBucketTags(h) \/ s.bucketTags = FALSE }

(* options.bucket is the option of the `s3sync bucket` subcommand *)
BucketOptionsOf(h) ==
  IF h \in {"cmdSync", "cmdMetadata", "cmdTags"} THEN {"", LiteralBucket} ELSE {""}

----------------------------------------------------------------------------
(* Target validation and bucket resolution *)

Disabled(s) == s.enabled = FALSE

NoIdentity(s) == s.bucketName = "" /\ s.bucketNameKey = ""

InvalidConfig(s) == NoIdentity(s) \/ s.localDir = ""

(* getBucketName: which branch a descriptor takes *)
GetBucketNameKindKeyFirst(s) ==
  IF s.bucketNameKey # "" THEN "lookup"
  ELSE IF s.bucketName # "" THEN "literal"
  ELSE "reject"
GetBucketNameKind(s) ==
  IF s.bucketName # "" THEN "literal"
  ELSE IF s.bucketNameKey # "" THEN "lookup"
  ELSE "reject"

(* A resolver that remembers the first lookup of a target *)
LookupsAfterResolveCached(s, n) ==
  IF GetBucketNameKind(s) = "lookup" /\ n = 0 THEN 1 ELSE n

(* describeStacks calls after one more getBucketName(s), n made before *)
LookupsAfterResolve(s, n) ==
  IF GetBucketNameKind(s) = "lookup" THEN n + 1 ELSE n

(* resolveStackOutput after describeStacks fulfilled: the OutputValue of *)
(* the output with the key, or "" for the throw when there is none       *)
ResolveStackOutput(outputKey) ==
  IF outputKey \in stackOutputs THEN OutputBucket ELSE ""

(* What the promise of getBucketName can settle to: a name, or "" for a  *)
(* rejection (no identity, no output with the key, or describeStacks     *)
(* itself rejects).                                                      *)
ResolveOutcomes(s) ==
  IF GetBucketNameKind(s) = "literal" THEN {s.bucketName}
  ELSE IF GetBucketNameKind(s) = "lookup"
    THEN {ResolveStackOutput(s.bucketNameKey), ""}
  ELSE {""}

(* The bucket-option filter of sync, syncMetadata and syncBucketTags *)
SelectedAlways(name) == TRUE
Selected(name) == optBucket = "" \/ name = optBucket

----------------------------------------------------------------------------
(* Promise states of a target within an orchestrator *)

Rejected == {"rej_config", "rej_resolve", "rej_precmd", "rej_tagread", "rej_tagwrite"}
Fulfilled == {"absent", "skipped", "done"}
Pending == {"resolving", "preCommand", "running", "reading", "writing", "thrown"}

(* sync maps with a plain callback: the first enabled invalid target     *)
(* throws out of s3Sync.map and the targets after it are never visited.  *)
SyncThrows(s) == ~Disabled(s) /\ InvalidConfig(s)

ThrowIndex ==
  IF \E t \in Targets : SyncThrows(cfg[t])
  THEN CHOOSE t \in Targets :
         SyncThrows(cfg[t]) /\ \A u \in Targets : SyncThrows(cfg[u]) => t <= u
  ELSE 0

SyncMapState(s, reached) ==
  IF ~reached THEN "init"
  ELSE IF Disabled(s) THEN "absent"
  ELSE "resolving"

ClearMapState(s) ==
  IF GetBucketNameKind(s) = "reject" THEN "rej_resolve" ELSE "resolving"

MetadataMapState(s) ==
  IF InvalidConfig(s) THEN "rej_config" ELSE "resolving"

TagsMapStateResolvesFirst(s) ==
  IF NoIdentity(s) THEN "rej_config" ELSE "resolving"
TagsMapState(s) ==
  IF NoIdentity(s) THEN "rej_config"
  ELSE IF ~s.bucketTags THEN "skipped"
  ELSE "resolving"

MapState(p, t) ==
  CASE p = "sync" -> SyncMapState(cfg[t], ThrowIndex = 0 \/ t < ThrowIndex)
    [] p = "clear" -> ClearMapState(cfg[t])
    [] p = "metadata" -> MetadataMapState(cfg[t])
    [] p = "tags" -> TagsMapState(cfg[t])

(* Whether the map callback of p reaches its getBucketName(s) call *)
CallsGetBucketName(p, t) ==
  \/ MapState(p, t) = "resolving"
  \/ p = "clear"

(* A join that fulfils with the first fulfilled target (Promise.any) *)
JoinOutcomeAny(p) ==
  IF \E t \in Targets : tstate[p][t] \in Rejected THEN "rejected"
  ELSE IF \E t \in Targets : tstate[p][t] \in Fulfilled THEN "resolved"
  ELSE "pending"

(* Promise.all(promises): what the join of the per-target promises of p *)
(* can settle to in the current state                                    *)
JoinOutcome(p) ==
  IF \E t \in Targets : tstate[p][t] \in Rejected THEN "rejected"
  ELSE IF \A t \in Targets : tstate[p][t] \in Fulfilled THEN "resolved"
  ELSE "pending"

(* A reaction of the join is queued: microtasks run before any event *)
SettleDue(p) == result[p] = "pending" /\ JoinOutcome(p) # "pending"

----------------------------------------------------------------------------
(* The hooks *)

FirstPhase(h) ==
  CASE h = "deploy" -> "sync"
    [] h = "remove" -> "clear"
    [] h = "cmdSync" -> "sync"
    [] h = "cmdMetadata" -> "metadata"
    [] h = "cmdTags" -> "tags"

(* .then(this.sync).then(this.syncMetadata).then(this.syncBucketTags) *)
NextPhase(p) ==
  CASE p = "sync" -> "metadata"
    [] p = "metadata" -> "tags"
    [] OTHER -> "none"

(* A chain that also runs the next orchestrator after a rejection (.finally) *)
ChainContinuesAfterFailure(p) == result[p] \in {"resolved", "rejected"}

ChainContinues(p) == result[p] = "resolved"

(* execSync blocks the event loop: nothing else runs while it executes *)
Blocked == \E t \in Targets : tstate["sync"][t] = "preCommand"

Runnable == ~halted /\ ~Blocked /\ ~\E p \in Phases : SettleDue(p)

----------------------------------------------------------------------------
(* The parts of the state a run of the hooks does not touch *)
RuleIdle ==
  /\ params = << >>
  /\ env = ""
  /\ s3Params = << >>
  /\ ruleFiles = << >>
  /\ called = {}

CopyIdle ==
  /\ target = << >>
  /\ file = << >>
  /\ copyParams = << >>
  /\ phasePrefix = << >>
  /\ built = {}

TagIdle ==
  /\ tagSetRead = << >>
  /\ existingTagSet = << >>
  /\ tagsToMerge = << >>
  /\ merges = 0

FlowIdle ==
  /\ bucketTagSet = << >>
  /\ desiredTags = << >>
  /\ tagCall = << >>
  /\ readTagSet = << >>
  /\ putTagSet = << >>

ProgIdle ==
  /\ progressOf = "none"
  /\ progressAmount = 0
  /\ progressTotal = 0
  /\ copyCount = 0
  /\ ended = {}
  /\ percent = 0
  /\ emitted = << >>

DelIdle ==
  /\ deleteRemoved = {}
  /\ localKeys = {}
  /\ remoteKeys = {}
  /\ remoteListed = {}
  /\ uploadDirParams = {}
  /\ uploadEnded = "none"

RunIdle ==
  /\ hook = "none"
  /\ cfg = << >>
  /\ optBucket = ""
  /\ started = {}
  /\ threw = {}
  /\ tstate = << >>
  /\ result = << >>
  /\ filesToSync = << >>
  /\ copiesInFlight = << >>
  /\ lookups = << >>
  /\ resolveCalls = << >>
  /\ preExit = << >>
  /\ issued = {}
  /\ halted = FALSE
  /\ noSync = FALSE
  /\ stackOutputs = {}
  /\ fired = FALSE
  /\ resolved = << >>

Init ==
  /\ hook \in Hooks
  /\ cfg \in [Targets -> ConfigsOf(hook)]
  /\ optBucket \in BucketOptionsOf(hook)
  /\ started = {}
  /\ threw = {}
  /\ tstate = [p \in Phases |-> [t \in Targets |-> "init"]]
  /\ result = [p \in Phases |-> "notstarted"]
  /\ filesToSync = [t \in Targets |-> 0]
  /\ copiesInFlight = [t \in Targets |-> 0]
  /\ lookups = [t \in Targets |-> 0]
  /\ resolveCalls = [t \in Targets |-> 0]
  /\ preExit = [t \in Targets |-> "none"]
  /\ issued = {}
  /\ halted = FALSE
  /\ noSync \in NoSyncValues
  /\ stackOutputs \in SUBSET {"BucketKey"}
  /\ (\A t \in Targets : GetBucketNameKind(cfg[t]) # "lookup") =>
       stackOutputs = {"BucketKey"}
  /\ fired = FALSE
  /\ resolved = [p \in Phases |-> [t \in Targets |-> Unsettled]]
  /\ RuleIdle /\ CopyIdle /\ TagIdle /\ FlowIdle /\ ProgIdle /\ DelIdle

(* The synchronous body of orchestrator p: s3Sync.map over the targets *)
CallPhase(p) ==
  /\ started' = started \cup {p}
  /\ threw' = IF p = "sync" /\ ThrowIndex # 0 THEN threw \cup {p} ELSE threw
  /\ tstate' = [tstate EXCEPT ![p] = [t \in Targets |-> MapState(p, t)]]
  /\ result' = [result EXCEPT ![p] =
       IF p = "sync" /\ ThrowIndex # 0 THEN "rejected" ELSE "pending"]
  /\ resolveCalls' = [t \in Targets |->
       IF CallsGetBucketName(p, t) THEN resolveCalls[t] + 1 ELSE resolveCalls[t]]
  /\ lookups' = [t \in Targets |->
       IF CallsGetBucketName(p, t) THEN LookupsAfterResolve(cfg[t], lookups[t])
       ELSE lookups[t]]
  /\ issued' = issued \cup
       { <<p, t, "describeStacks">> : t \in
           { u \in Targets : CallsGetBucketName(p, u)
                              /\ LookupsAfterResolve(cfg[u], lookups[u]) > lookups[u] } }
  /\ IF p = "metadata"
     THEN \E f \in [Targets -> {0, MaxFiles}] :
            /\ \A t \in Targets : InvalidConfig(cfg[t]) => f[t] = 0
            /\ filesToSync' = f
     ELSE UNCHANGED filesToSync
  /\ resolved' = [resolved EXCEPT ![p] = [t \in Targets |->
       IF p = "clear" /\ GetBucketNameKind(cfg[t]) = "reject"
       THEN "" ELSE Unsettled]]
  /\ UNCHANGED <<noSync, stackOutputs, cfg, optBucket, hook, copiesInFlight, preExit, halted>>
  /\ UNCHANGED notRunVars

(* The hook function: the lifecycle hooks test the constant noSync and   *)
(* return undefined when it is set, the s3sync command hooks do not      *)
(* test it.                                                              *)
HookRunsAlways(h, ns) == TRUE
HookRuns(h, ns) == IF h \in {"deploy", "remove"} THEN ~ns ELSE TRUE

HookFire ==
  /\ ~fired
  /\ fired' = TRUE
  /\ IF HookRuns(hook, noSync)
       THEN CallPhase(FirstPhase(hook))
       ELSE UNCHANGED <<cfg, optBucket, hook, started, threw, tstate, result,
                        filesToSync, copiesInFlight, lookups, resolveCalls,
                        preExit, issued, halted, noSync, stackOutputs, resolved,
                        ruleVars,
                        copyVars, tagVars, flowVars, progVars, delVars>>

ChainNext ==
  /\ Runnable
  /\ UNCHANGED fired
  /\ hook = "deploy"
  /\ \E p \in started :
       /\ NextPhase(p) \in Phases \ started
       /\ ChainContinues(p)
       /\ CallPhase(NextPhase(p))

----------------------------------------------------------------------------
(* sync: the reaction to the resolved bucket name *)

SyncThenState(s, name) ==
  IF name = "" THEN "rej_resolve"
  ELSE IF ~Selected(name) THEN "skipped"
  ELSE IF s.preCommand THEN "preCommand"
  ELSE "running"

SyncThen(t) ==
  /\ Runnable
  /\ tstate["sync"][t] = "resolving"
  /\ \E name \in ResolveOutcomes(cfg[t]) :
       LET st == SyncThenState(cfg[t], name) IN
         /\ resolved' = [resolved EXCEPT !["sync"][t] = name]
         /\ tstate' = [tstate EXCEPT !["sync"][t] = st]
         /\ issued' = issued \cup
              (IF st = "preCommand" THEN {<<"sync", t, "preCommand">>}
               ELSE IF st = "running" THEN {<<"sync", t, "uploadDir">>}
               ELSE {})
  /\ UNCHANGED <<noSync, stackOutputs, fired, cfg, optBucket, hook,
                 started, threw, result, filesToSync,
                 copiesInFlight, lookups, resolveCalls, preExit, halted>>
  /\ UNCHANGED notRunVars

(* A pre-command whose exit status is not looked at *)
ExecutorStateIgnoresExit(ok) == "running"

(* execSync returns (exit 0) or throws inside the promise executor *)
ExecutorState(ok) == IF ok THEN "running" ELSE "rej_precmd"

PreCommandExit(t) ==
  /\ ~halted
  /\ tstate["sync"][t] = "preCommand"
  /\ \E ok \in BOOLEAN :
       LET st == ExecutorState(ok) IN
         /\ preExit' = [preExit EXCEPT ![t] = IF ok THEN "ok" ELSE "fail"]
         /\ tstate' = [tstate EXCEPT !["sync"][t] = st]
         /\ issued' = issued \cup
              (IF st = "running" THEN {<<"sync", t, "uploadDir">>} ELSE {})
  /\ UNCHANGED <<noSync, stackOutputs, fired, resolved, cfg, optBucket, hook,
                 started, threw, result, filesToSync,
                 copiesInFlight, lookups, resolveCalls, halted>>
  /\ UNCHANGED notRunVars

(* clear: the reaction to the resolved bucket name *)
ClearThenState(name) == IF name = "" THEN "rej_resolve" ELSE "running"

ClearThen(t) ==
  /\ Runnable
  /\ tstate["clear"][t] = "resolving"
  /\ \E name \in ResolveOutcomes(cfg[t]) :
       LET st == ClearThenState(name) IN
         /\ resolved' = [resolved EXCEPT !["clear"][t] = name]
         /\ tstate' = [tstate EXCEPT !["clear"][t] = st]
         /\ issued' = issued \cup
              (IF st = "running" THEN {<<"clear", t, "deleteDir">>} ELSE {})
  /\ UNCHANGED <<noSync, stackOutputs, fired, cfg, optBucket, hook,
                 started, threw, result, filesToSync,
                 copiesInFlight, lookups, resolveCalls, preExit, halted>>
  /\ UNCHANGED notRunVars

(* The uploader of uploadDir or deleteDir emits 'end': resolve('done') *)
UploaderEnd(p, t) ==
  /\ Runnable
  /\ p \in {"sync", "clear"}
  /\ tstate[p][t] = "running"
  /\ tstate' = [tstate EXCEPT ![p][t] = "done"]
  /\ UNCHANGED <<noSync, stackOutputs, fired, resolved, cfg, optBucket, hook,
                 started, threw, result, filesToSync,
                 copiesInFlight, lookups, resolveCalls, preExit, issued, halted>>
  /\ UNCHANGED notRunVars

(* An 'error' handler rethrows from the event callback: the exception    *)
(* leaves through the emitter, the promise has no reject and stays       *)
(* pending.  The exception is uncaught, so the host may end the process. *)
ErrorHandlerState == "thrown"

UploaderError(p, t) ==
  /\ Runnable
  /\ p \in {"sync", "clear"}
  /\ tstate[p][t] = "running"
  /\ tstate' = [tstate EXCEPT ![p][t] = ErrorHandlerState]
  /\ halted' \in BOOLEAN
  /\ UNCHANGED <<noSync, stackOutputs, fired, resolved, cfg, optBucket, hook,
                 started, threw, result, filesToSync,
                 copiesInFlight, lookups, resolveCalls, preExit, issued>>
  /\ UNCHANGED notRunVars

----------------------------------------------------------------------------
(* syncMetadata *)

MetadataThenStateFilterFirst(name, nfiles) ==
  IF ~Selected(name) THEN "skipped"
  ELSE IF nfiles = 0 THEN "done"
  ELSE "running"
MetadataThenState(name, nfiles) ==
  IF name = "" THEN "rej_resolve"
  ELSE IF ~Selected(name) THEN "skipped"
  ELSE IF nfiles = 0 THEN "done"
  ELSE "running"

(* Promise.all(filesToSync.map(...)): every copyObject is issued at once *)
CopiesIssued(nfiles) == nfiles

MetadataThen(t) ==
  /\ Runnable
  /\ tstate["metadata"][t] = "resolving"
  /\ \E name \in ResolveOutcomes(cfg[t]) :
       LET st == MetadataThenState(name, filesToSync[t]) IN
         /\ resolved' = [resolved EXCEPT !["metadata"][t] = name]
         /\ tstate' = [tstate EXCEPT !["metadata"][t] = st]
         /\ copiesInFlight' = [copiesInFlight EXCEPT ![t] =
              IF st = "running" THEN CopiesIssued(filesToSync[t]) ELSE 0]
         /\ issued' = issued \cup
              (IF st = "running" THEN {<<"metadata", t, "copyObject">>} ELSE {})
  /\ UNCHANGED <<noSync, stackOutputs, fired, cfg, optBucket, hook,
                 started, threw, result, filesToSync,
                 lookups, resolveCalls, preExit, halted>>
  /\ UNCHANGED notRunVars

(* One copyObject emits 'end'; the last one fulfils the target's join *)
CopyEnd(t) ==
  /\ Runnable
  /\ tstate["metadata"][t] \in {"running", "thrown"}
  /\ copiesInFlight[t] > 0
  /\ copiesInFlight' = [copiesInFlight EXCEPT ![t] = @ - 1]
  /\ tstate' = [tstate EXCEPT !["metadata"][t] =
       IF @ = "running" /\ copiesInFlight[t] = 1 THEN "done" ELSE @]
  /\ UNCHANGED <<noSync, stackOutputs, fired, resolved, cfg, optBucket, hook,
                 started, threw, result, filesToSync,
                 lookups, resolveCalls, preExit, issued, halted>>
  /\ UNCHANGED notRunVars

CopyError(t) ==
  /\ Runnable
  /\ tstate["metadata"][t] = "running"
  /\ copiesInFlight[t] > 0
  /\ copiesInFlight' = [copiesInFlight EXCEPT ![t] = @ - 1]
  /\ tstate' = [tstate EXCEPT !["metadata"][t] = ErrorHandlerState]
  /\ halted' \in BOOLEAN
  /\ UNCHANGED <<noSync, stackOutputs, fired, resolved, cfg, optBucket, hook,
                 started, threw, result, filesToSync,
                 lookups, resolveCalls, preExit, issued>>
  /\ UNCHANGED notRunVars

----------------------------------------------------------------------------
(* syncBucketTags *)

TagsThenState(name) ==
  IF name = "" THEN "rej_resolve"
  ELSE IF ~Selected(name) THEN "skipped"
  ELSE "reading"

TagsThen(t) ==
  /\ Runnable
  /\ tstate["tags"][t] = "resolving"
  /\ \E name \in ResolveOutcomes(cfg[t]) :
       LET st == TagsThenState(name) IN
         /\ resolved' = [resolved EXCEPT !["tags"][t] = name]
         /\ tstate' = [tstate EXCEPT !["tags"][t] = st]
         /\ issued' = issued \cup
              (IF st = "reading" THEN {<<"tags", t, "getBucketTagging">>} ELSE {})
  /\ UNCHANGED <<noSync, stackOutputs, fired, cfg, optBucket, hook,
                 started, threw, result, filesToSync,
                 copiesInFlight, lookups, resolveCalls, preExit, halted>>
  /\ UNCHANGED notRunVars

(* getBucketTagging settles: merge and putBucketTagging, or rejection *)
TagReadState(ok) == IF ok THEN "writing" ELSE "rej_tagread"

TagRead(t) ==
  /\ Runnable
  /\ tstate["tags"][t] = "reading"
  /\ \E ok \in BOOLEAN :
       LET st == TagReadState(ok) IN
         /\ tstate' = [tstate EXCEPT !["tags"][t] = st]
         /\ issued' = issued \cup
              (IF st = "writing" THEN {<<"tags", t, "putBucketTagging">>} ELSE {})
  /\ UNCHANGED <<noSync, stackOutputs, fired, resolved, cfg, optBucket, hook,
                 started, threw, result, filesToSync,
                 copiesInFlight, lookups, resolveCalls, preExit, halted>>
  /\ UNCHANGED notRunVars

TagWriteState(ok) == IF ok THEN "done" ELSE "rej_tagwrite"

TagWrite(t) ==
  /\ Runnable
  /\ tstate["tags"][t] = "writing"
  /\ \E ok \in BOOLEAN :
       tstate' = [tstate EXCEPT !["tags"][t] = TagWriteState(ok)]
  /\ UNCHANGED <<noSync, stackOutputs, fired, resolved, cfg, optBucket, hook,
                 started, threw, result, filesToSync,
                 copiesInFlight, lookups, resolveCalls, preExit, issued, halted>>
  /\ UNCHANGED notRunVars

----------------------------------------------------------------------------
(* The join of orchestrator p settles *)
Settle(p) ==
  /\ ~halted
  /\ SettleDue(p)
  /\ result' = [result EXCEPT ![p] = JoinOutcome(p)]
  /\ UNCHANGED <<noSync, stackOutputs, fired, resolved, cfg, optBucket, hook,
                 started, threw, tstate, filesToSync,
                 copiesInFlight, lookups, resolveCalls, preExit, issued, halted>>
  /\ UNCHANGED notRunVars

Next ==
  \/ HookFire
  \/ ChainNext
  \/ \E t \in Targets : SyncThen(t)
  \/ \E t \in Targets : PreCommandExit(t)
  \/ \E t \in Targets : ClearThen(t)
  \/ \E p \in Phases, t \in Targets : UploaderEnd(p, t)
  \/ \E p \in Phases, t \in Targets : UploaderError(p, t)
  \/ \E t \in Targets : MetadataThen(t)
  \/ \E t \in Targets : CopyEnd(t)
  \/ \E t \in Targets : CopyError(t)
  \/ \E t \in Targets : TagsThen(t)
  \/ \E t \in Targets : TagRead(t)
  \/ \E t \in Targets : TagWrite(t)
  \/ \E p \in Phases : Settle(p)

Spec == Init /\ [][Next]_vars

----------------------------------------------------------------------------
(* The rule matcher.  s.params is a list of rules {glob: {key: value}};    *)
(* getS3Params answers for one local file of an upload, and the rule pass  *)
(* of syncMetadata builds filesToSync over all local files.                *)

MaxRules == 2

(* getLocalFiles(localDir, []): the local files in directory order *)
LocalFiles == <<"app.js", "index.html">>
FileNames == { LocalFiles[i] : i \in DOMAIN LocalFiles }

Globs == {"*", "*.js"}
Envs == {"dev", "prod"}

PropKeys == {"CacheControl", "ContentEncoding", "OnlyForEnv"}

PropValues(k) ==
  CASE k = "CacheControl" -> {"no-cache", "max-age=60"}
    [] k = "ContentEncoding" -> {"gzip"}
    [] k = "OnlyForEnv" -> Envs

(* A property bag: a JavaScript object from keys to values *)
PropertyBags ==
  UNION { { b \in [K -> UNION { PropValues(k) : k \in PropKeys }] :
              \A k \in K : b[k] \in PropValues(k) } : K \in SUBSET PropKeys }

EmptyBag == [k \in {} |-> ""]

Rules == [glob : Globs, bag : PropertyBags]
RuleLists == UNION { [1..n -> Rules] : n \in 0..MaxRules }

(* minimatch(localFile, `${path.resolve(localDir)}/${glob}`) *)
Minimatch(f, glob) ==
  CASE glob = "*" -> TRUE
    [] glob = "*.js" -> f = "app.js"

(* An assign that keeps the value already there *)
AssignKeepsTarget(a, b) ==
  [k \in DOMAIN a \cup DOMAIN b |-> IF k \in DOMAIN a THEN a[k] ELSE b[k]]

(* Object.assign(a, b): the keys of b overwrite those of a *)
Assign(a, b) ==
  [k \in DOMAIN a \cup DOMAIN b |-> IF k \in DOMAIN b THEN b[k] ELSE a[k]]

(* A delete that leaves the key in place *)
DeleteNothing(a, key) == a

(* delete a[key] *)
Delete(a, key) == [k \in DOMAIN a \ {key} |-> a[k]]

(* A non-empty string is truthy; "" stands for undefined *)
Truthy(v) == v # ""

(* extractMetaParams(config): the values of the rule object merged into  *)
(* a fresh object                                                        *)
ExtractMetaParams(config) == Assign(EmptyBag, config.bag)

(* The forEach of getS3Params from rule i on: <<s3Params, onlyForEnv>> *)
RECURSIVE GetS3ParamsLoop(_, _, _, _, _)
GetS3ParamsLoop(rs, f, i, acc, only) ==
  IF i > Len(rs) THEN [bag |-> acc, onlyForEnv |-> only]
  ELSE IF Minimatch(f, rs[i].glob)
       THEN LET m == Assign(acc, ExtractMetaParams(rs[i])) IN
              GetS3ParamsLoop(rs, f, i + 1, m,
                IF "OnlyForEnv" \in DOMAIN m /\ Truthy(m["OnlyForEnv"])
                THEN m["OnlyForEnv"] ELSE only)
       ELSE GetS3ParamsLoop(rs, f, i + 1, acc, only)

(* An exclusion that does not look at the environment *)
ExcludedWhenSet(only, e) == Truthy(only)

(* onlyForEnv && onlyForEnv !== this.options.env *)
Excluded(only, e) == Truthy(only) /\ only # e

(* getS3Params(localFile, stat, cb): cb(null, null) or cb(null, s3Params) *)
GetS3Params(rs, e, f) ==
  LET r == GetS3ParamsLoop(rs, f, 1, EmptyBag, "") IN
    IF Excluded(r.onlyForEnv, e)
    THEN [included |-> FALSE, bag |-> EmptyBag]
    ELSE [included |-> TRUE, bag |-> Delete(r.bag, "OnlyForEnv")]

(* filesToSync.filter(e => e.name !== match) *)
WithoutFile(list, match) == SelectSeq(list, LAMBDA x : x.name # match)

(* The callback of the rule pass for one matched file *)
MetaVisit(st, e, rule, match) ==
  LET p == ExtractMetaParams(rule) IN
    IF match \in st.ignoreFiles THEN st
    ELSE IF "OnlyForEnv" \in DOMAIN p /\ Excluded(p["OnlyForEnv"], e)
    THEN [ignoreFiles |-> st.ignoreFiles \cup {match},
          filesToSync |-> WithoutFile(st.filesToSync, match)]
    ELSE [ignoreFiles |-> st.ignoreFiles,
          filesToSync |-> Append(WithoutFile(st.filesToSync, match),
                                 [name |-> match, params |-> Delete(p, "OnlyForEnv")])]

(* minimatch.match(files, pattern).forEach(...) from file j on *)
RECURSIVE MetaFilesLoop(_, _, _, _)
MetaFilesLoop(st, e, rule, j) ==
  IF j > Len(LocalFiles) THEN st
  ELSE IF Minimatch(LocalFiles[j], rule.glob)
       THEN MetaFilesLoop(MetaVisit(st, e, rule, LocalFiles[j]), e, rule, j + 1)
       ELSE MetaFilesLoop(st, e, rule, j + 1)

(* s.params.forEach(...) of syncMetadata from rule i on *)
RECURSIVE MetaRulesLoop(_, _, _, _)
MetaRulesLoop(st, e, rs, i) ==
  IF i > Len(rs) THEN st
  ELSE MetaRulesLoop(MetaFilesLoop(st, e, rs[i], 1), e, rs, i + 1)

(* filesToSync when the rule pass of syncMetadata is over *)
MetadataRulePass(rs, e) ==
  MetaRulesLoop([ignoreFiles |-> {}, filesToSync |-> << >>], e, rs, 1).filesToSync

InitRules ==
  /\ params \in RuleLists
  /\ env \in Envs \cup {""}
  /\ s3Params = [f \in FileNames |-> [included |-> FALSE, bag |-> EmptyBag]]
  /\ ruleFiles = << >>
  /\ called = {}
  /\ RunIdle /\ CopyIdle /\ TagIdle /\ FlowIdle /\ ProgIdle /\ DelIdle

(* The uploader asks for the parameters of one local file *)
GetS3ParamsCall(f) ==
  /\ f \notin called
  /\ s3Params' = [s3Params EXCEPT ![f] = GetS3Params(params, env, f)]
  /\ called' = called \cup {f}
  /\ UNCHANGED <<params, env, ruleFiles>>
  /\ UNCHANGED notRuleVars

(* syncMetadata builds filesToSync *)
RulePass ==
  /\ "syncMetadata" \notin called
  /\ ruleFiles' = MetadataRulePass(params, env)
  /\ called' = called \cup {"syncMetadata"}
  /\ UNCHANGED <<params, env, s3Params>>
  /\ UNCHANGED notRuleVars

NextRules ==
  \/ \E f \in FileNames : GetS3ParamsCall(f)
  \/ RulePass

SpecRules == InitRules /\ [][NextRules]_vars

----------------------------------------------------------------------------
(* The parameters of a metadata copy and the prefixes handed to the        *)
(* uploader.  Strings are sequences of tokens: "/" and "\\" are the        *)
(* separators, every other token stands for a run of other characters.    *)

MaxPrefixLen == 3

PrefixChars == {"/", "a"}
PrefixStrings == UNION { [1..n -> PrefixChars] : n \in 0..MaxPrefixLen }

(* path.sep of the host *)
PathSeps == {"/", "\\"}

BucketNameString == <<"bucket">>
LocalDirString == <<"localDir">>

(* The keys a rule can put into file.params, each with one foreign value *)
CopyBagKeys ==
  {"ContentType", "CacheControl", "CopySource", "Key", "Bucket", "ACL",
   "MetadataDirective"}
CopyBags == UNION { [K -> {<<"fromRule">>}] : K \in SUBSET CopyBagKeys }

(* The fields of a target the copy and the prefixes are built from;      *)
(* << >> stands for an absent property                                   *)
CopyTargets ==
  [bucketPrefix : PrefixStrings,
   acl : {<< >>, <<"public-read">>},
   defaultContentType : {<< >>, <<"text/html">>}]

(* An entry of filesToSync: its base name, the host separator and params; *)
(* the file lies in the directory d of localDir                           *)
CopyFiles == [base : {"app.js", "LICENSE"}, sep : PathSeps, params : CopyBags]

FileName(f) == LocalDirString \o <<f.sep>> \o <<"d", f.sep, f.base>>

(* s.replace(/\/?$/, '') *)
StripTrailingSlash(str) ==
  IF Len(str) > 0 /\ str[Len(str)] = "/" THEN SubSeq(str, 1, Len(str) - 1) ELSE str

(* s.replace(/^\/?/, '/') *)
EnsureLeadingSlash(str) ==
  IF Len(str) > 0 /\ str[1] = "/" THEN str ELSE <<"/">> \o str

(* s.replace(/^\//, '') *)
StripLeadingSlash(str) ==
  IF Len(str) > 0 /\ str[1] = "/" THEN Tail(str) ELSE str

(* bucketPrefix of syncMetadata *)
MetadataBucketPrefix(sx) ==
  IF Len(sx.bucketPrefix) > 0
  THEN EnsureLeadingSlash(StripTrailingSlash(sx.bucketPrefix))
  ELSE << >>

(* bucketPrefix of sync and of clear: the property as configured *)
PhaseBucketPrefix(sx) == sx.bucketPrefix

(* toS3Path(osPath): every path.sep becomes "/" *)
ToS3Path(str, sep) == [i \in DOMAIN str |-> IF str[i] = sep THEN "/" ELSE str[i]]

(* file.name.replace(path.resolve(localDir) + path.sep, by) *)
ReplaceLocalDir(f, by) == by \o SubSeq(FileName(f), 3, Len(FileName(f)))

BucketDir(sx) == BucketNameString \o MetadataBucketPrefix(sx) \o <<"/">>

KeyPrefix(sx) ==
  IF Len(MetadataBucketPrefix(sx)) > 0
  THEN StripLeadingSlash(MetadataBucketPrefix(sx)) \o <<"/">>
  ELSE << >>

(* mime.getType(file.name): by extension, << >> for null *)
MimeGetType(f) == IF f.base = "app.js" THEN <<"application/javascript">> ELSE << >>

(* A content type that prefers the target's default to the detected one *)
ContentTypeObjectDefaultFirst(sx, f) ==
  IF MimeGetType(f) # << >> \/ sx.defaultContentType # << >>
  THEN [k \in {"ContentType"} |->
          IF sx.defaultContentType # << >> THEN sx.defaultContentType ELSE MimeGetType(f)]
  ELSE EmptyBag

ContentTypeObject(sx, f) ==
  IF MimeGetType(f) # << >> \/ sx.defaultContentType # << >>
  THEN [k \in {"ContentType"} |->
          IF MimeGetType(f) # << >> THEN MimeGetType(f) ELSE sx.defaultContentType]
  ELSE EmptyBag

FixedCopyParams(sx, f) ==
  [k \in {"CopySource", "Key", "Bucket", "ACL", "MetadataDirective"} |->
     CASE k = "CopySource" -> ToS3Path(ReplaceLocalDir(f, BucketDir(sx)), f.sep)
       [] k = "Key" -> ToS3Path(ReplaceLocalDir(f, KeyPrefix(sx)), f.sep)
       [] k = "Bucket" -> BucketNameString
       [] k = "ACL" -> IF sx.acl # << >> THEN sx.acl ELSE <<"private">>
       [] k = "MetadataDirective" -> <<"REPLACE">>]

(* A spread that puts the rule's params last *)
CopyObjectParamsRuleLast(sx, f) ==
  Assign(Assign(ContentTypeObject(sx, f), FixedCopyParams(sx, f)), f.params)

(* { ...contentTypeObject, ...file.params, ...{CopySource, Key, ...} } *)
CopyObjectParams(sx, f) ==
  Assign(Assign(ContentTypeObject(sx, f), f.params), FixedCopyParams(sx, f))

InitCopy ==
  /\ target \in CopyTargets
  /\ file \in CopyFiles
  /\ copyParams = EmptyBag
  /\ phasePrefix = [uploadDir |-> << >>, deleteDir |-> << >>]
  /\ built = {}
  /\ RunIdle /\ RuleIdle /\ TagIdle /\ FlowIdle /\ ProgIdle /\ DelIdle

(* syncMetadata builds the params of the copy of file and calls copyObject *)
CopyObjectCall ==
  /\ "copyObject" \notin built
  /\ copyParams' = CopyObjectParams(target, file)
  /\ built' = built \cup {"copyObject"}
  /\ UNCHANGED <<target, file, phasePrefix>>
  /\ UNCHANGED notCopyVars

(* sync builds s3Params {Bucket, Prefix, ACL} and calls uploadDir *)
UploadDirCall ==
  /\ "uploadDir" \notin built
  /\ phasePrefix' = [phasePrefix EXCEPT !.uploadDir = PhaseBucketPrefix(target)]
  /\ built' = built \cup {"uploadDir"}
  /\ UNCHANGED <<target, file, copyParams>>
  /\ UNCHANGED notCopyVars

(* clear builds params {Bucket, Prefix} and calls deleteDir *)
DeleteDirCall ==
  /\ "deleteDir" \notin built
  /\ phasePrefix' = [phasePrefix EXCEPT !.deleteDir = PhaseBucketPrefix(target)]
  /\ built' = built \cup {"deleteDir"}
  /\ UNCHANGED <<target, file, copyParams>>
  /\ UNCHANGED notCopyVars

NextCopy ==
  \/ CopyObjectCall
  \/ UploadDirCall
  \/ DeleteDirCall

SpecCopy == InitCopy /\ [][NextCopy]_vars

----------------------------------------------------------------------------
(* mergeTags.  A TagSet is a list of {Key, Value}.                         *)

MaxTags == 2

TagKeys == {"k1", "k2", "k3"}
TagValues == {"v1", "v2"}
Tags == [Key : TagKeys, Value : TagValues]

(* data.TagSet of getBucketTagging *)
TagSets == UNION { [1..n -> Tags] : n \in 0..MaxTags }

(* tagsToUpdate: Object.keys(s.bucketTags).map(...), one entry per key *)
TagsToUpdate ==
  { d \in TagSets : \A i, j \in DOMAIN d : d[i].Key = d[j].Key => i = j }

(* A merge step that puts a new tag in front (unshift) *)
MergeTagUnshift(set, tag) ==
  IF \E i \in DOMAIN set : set[i].Key = tag.Key
  THEN LET i == CHOOSE x \in DOMAIN set :
                  /\ set[x].Key = tag.Key
                  /\ \A y \in DOMAIN set : set[y].Key = tag.Key => x <= y
       IN [set EXCEPT ![i].Value = tag.Value]
  ELSE <<tag>> \o set

(* A merge step that pushes without looking for the key *)
MergeTagAlwaysPush(set, tag) == Append(set, tag)

(* The callback of tagsToMerge.forEach: find the first entry with the    *)
(* key and set its Value, or push the tag                                *)
MergeTag(set, tag) ==
  IF \E i \in DOMAIN set : set[i].Key = tag.Key
  THEN LET i == CHOOSE x \in DOMAIN set :
                  /\ set[x].Key = tag.Key
                  /\ \A y \in DOMAIN set : set[y].Key = tag.Key => x <= y
       IN [set EXCEPT ![i].Value = tag.Value]
  ELSE Append(set, tag)

(* A loop that merges one tag and stops *)
MergeTagsFromOnce(set, toMerge, i) ==
  IF i > Len(toMerge) THEN set ELSE MergeTag(set, toMerge[i])

(* tagsToMerge.forEach from tag i on *)
RECURSIVE MergeTagsFrom(_, _, _)
MergeTagsFrom(set, toMerge, i) ==
  IF i > Len(toMerge) THEN set
  ELSE MergeTagsFrom(MergeTag(set, toMerge[i]), toMerge, i + 1)

(* A merge that writes the desired tags in place of the existing ones *)
MergeTagsReplacing(set, toMerge) == toMerge

(* mergeTags(existingTagSet, tagsToMerge): existingTagSet afterwards *)
MergeTags(set, toMerge) == MergeTagsFrom(set, toMerge, 1)

InitTags ==
  /\ tagSetRead \in TagSets
  /\ existingTagSet = tagSetRead
  /\ tagsToMerge \in TagsToUpdate
  /\ merges = 0
  /\ RunIdle /\ RuleIdle /\ CopyIdle /\ FlowIdle /\ ProgIdle /\ DelIdle

(* this.mergeTags(existingTagSet, tagsToUpdate), called on its own result *)
(* again to observe a repeated merge                                      *)
MergeTagsCall ==
  /\ merges < 2
  /\ existingTagSet' = MergeTags(existingTagSet, tagsToMerge)
  /\ merges' = merges + 1
  /\ UNCHANGED <<tagSetRead, tagsToMerge>>
  /\ UNCHANGED notTagVars

NextTags == MergeTagsCall

SpecTags == InitTags /\ [][NextTags]_vars

----------------------------------------------------------------------------
(* The tag phase of the targets that resolved to one bucket: each target   *)
(* runs getBucketTagging, then mergeTags and putBucketTagging, and the     *)
(* chains of the targets run concurrently under Promise.all.               *)

TagWriters == {1, 2}

(* The TagSets the bucket may hold before the phase: keys are unique *)
StoredTagSets == { ts \in TagsToUpdate : Len(ts) <= 1 }

(* Tagging.TagSet of putParams: the set read, after mergeTags mutated it *)
PutTagSetDesiredOnly(existing, tagsToUpdate) == tagsToUpdate
PutTagSet(existing, tagsToUpdate) == MergeTags(existing, tagsToUpdate)

InitTagPhase ==
  /\ bucketTagSet \in StoredTagSets
  /\ desiredTags \in [TagWriters -> TagsToUpdate]
  /\ tagCall = [w \in TagWriters |-> "init"]
  /\ readTagSet = [w \in TagWriters |-> {}]
  /\ putTagSet = [w \in TagWriters |-> {}]
  /\ RunIdle /\ RuleIdle /\ CopyIdle /\ TagIdle /\ ProgIdle /\ DelIdle

(* The callback of getBucketName: it issues getBucketTagging *)
GetBucketTagging(w) ==
  /\ tagCall[w] = "init"
  /\ tagCall' = [tagCall EXCEPT ![w] = "reading"]
  /\ UNCHANGED <<bucketTagSet, desiredTags, readTagSet, putTagSet>>
  /\ UNCHANGED notFlowVars

(* getBucketTagging settles.  Fulfilled: data.TagSet is the set the bucket *)
(* holds now, mergeTags merges the target's tags into it and               *)
(* putBucketTagging is issued with the result.  Rejected: the chain of the *)
(* target rejects and the second callback never runs.                      *)
GetBucketTaggingThen(w) ==
  /\ tagCall[w] = "reading"
  /\ \/ /\ readTagSet' = [readTagSet EXCEPT ![w] = {bucketTagSet}]
        /\ putTagSet' = [putTagSet EXCEPT
                           ![w] = {PutTagSet(bucketTagSet, desiredTags[w])}]
        /\ tagCall' = [tagCall EXCEPT ![w] = "writing"]
     \/ /\ tagCall' = [tagCall EXCEPT ![w] = "rej_tagread"]
        /\ UNCHANGED <<readTagSet, putTagSet>>
  /\ UNCHANGED <<bucketTagSet, desiredTags>>
  /\ UNCHANGED notFlowVars

(* putBucketTagging settles: fulfilled, the bucket holds the set written *)
PutBucketTaggingThen(w) ==
  /\ tagCall[w] = "writing"
  /\ \/ /\ \E ts \in putTagSet[w] : bucketTagSet' = ts
        /\ tagCall' = [tagCall EXCEPT ![w] = "done"]
     \/ /\ tagCall' = [tagCall EXCEPT ![w] = "rej_tagwrite"]
        /\ UNCHANGED bucketTagSet
  /\ UNCHANGED <<desiredTags, readTagSet, putTagSet>>
  /\ UNCHANGED notFlowVars

NextTagPhase ==
  \E w \in TagWriters :
    \/ GetBucketTagging(w)
    \/ GetBucketTaggingThen(w)
    \/ PutBucketTaggingThen(w)

SpecTagPhase == InitTagPhase /\ [][NextTagPhase]_vars

----------------------------------------------------------------------------
(* The upload of one target: sync builds the params of uploadDir, and the  *)
(* uploader reconciles the prefix with localDir.                           *)

ObjectKeys == {"index.html", "app.js", "old.js"}

(* let deleteRemoved = true; overridden when s has the property *)
DeleteRemovedDefaultFalse(own) == IF own = {} THEN FALSE ELSE TRUE \in own
DeleteRemovedParam(own) == IF own = {} THEN TRUE ELSE TRUE \in own

(* The objects under the prefix once the uploader has emitted 'end': every *)
(* local file is there, and with deleteRemoved the objects without a local *)
(* file are gone.                                                          *)
Reconciled(remote, local, delete) ==
  IF delete THEN local ELSE remote \cup local

(* What an uploader that stops with 'error' may leave under the prefix *)
PartlyReconciled(remote, local, delete) ==
  { (remote \ gone) \cup put :
      gone \in (IF delete THEN SUBSET (remote \ local) ELSE {{}}),
      put \in SUBSET local }

InitUpload ==
  /\ deleteRemoved \in {{}, {TRUE}, {FALSE}}
  /\ localKeys \in SUBSET ObjectKeys
  /\ remoteKeys \in SUBSET ObjectKeys
  /\ remoteListed = {}
  /\ uploadDirParams = {}
  /\ uploadEnded = "none"
  /\ RunIdle /\ RuleIdle /\ CopyIdle /\ TagIdle /\ FlowIdle /\ ProgIdle

(* The callback of getBucketName in sync: params, then uploadDir(params) *)
UploadDir ==
  /\ uploadDirParams = {}
  /\ uploadDirParams' = {[deleteRemoved |-> DeleteRemovedParam(deleteRemoved)]}
  /\ remoteListed' = remoteKeys
  /\ UNCHANGED <<deleteRemoved, localKeys, remoteKeys, uploadEnded>>
  /\ UNCHANGED notDelVars

(* The uploader emits 'end' *)
UploadDirEnd ==
  /\ uploadEnded = "none"
  /\ \E ps \in uploadDirParams :
       remoteKeys' = Reconciled(remoteKeys, localKeys, ps.deleteRemoved)
  /\ uploadEnded' = "end"
  /\ UNCHANGED <<deleteRemoved, localKeys, remoteListed, uploadDirParams>>
  /\ UNCHANGED notDelVars

(* The uploader emits 'error' *)
UploadDirError ==
  /\ uploadEnded = "none"
  /\ \E ps \in uploadDirParams :
       remoteKeys' \in PartlyReconciled(remoteKeys, localKeys, ps.deleteRemoved)
  /\ uploadEnded' = "error"
  /\ UNCHANGED <<deleteRemoved, localKeys, remoteListed, uploadDirParams>>
  /\ UNCHANGED notDelVars

NextUpload == UploadDir \/ UploadDirEnd \/ UploadDirError

SpecUpload == InitUpload /\ [][NextUpload]_vars

----------------------------------------------------------------------------
(* The progress line of one target in one phase: the closure variable      *)
(* percent and the handlers that update it.                                *)

MaxTotal == 20

ProgressPhases == {"sync", "clear", "metadata"}

(* Math.round((amount / total) * 10) * 10, for total > 0: Math.round takes *)
(* a half up                                                               *)
MathRoundTimes10(amount, total) == ((20 * amount + total) \div (2 * total)) * 10

(* if (current > percent) *)
UpdatesOnChange(current, pct) == current # pct
Updates(current, pct) == current > pct

(* The line is created with the message of percent = 0 *)
InitProgress ==
  /\ progressOf \in ProgressPhases
  /\ copyCount \in (IF progressOf = "metadata" THEN 0..MaxFiles ELSE {0})
  /\ progressAmount = 0
  /\ progressTotal = 0
  /\ ended = {}
  /\ percent = 0
  /\ emitted = <<0>>
  /\ RunIdle /\ RuleIdle /\ CopyIdle /\ TagIdle /\ FlowIdle /\ DelIdle

(* percent = current; bucketProgress.update(getProgressMessage()) *)
ProgressUpdate(current) ==
  IF Updates(current, percent)
    THEN percent' = current /\ emitted' = Append(emitted, current)
    ELSE UNCHANGED <<percent, emitted>>

(* A 'progress' event of the uploader of sync or of clear: the uploader   *)
(* emits one when it has found more to transfer (progressTotal changes)    *)
(* and one when it has transferred more (progressAmount changes)           *)
UploaderProgress ==
  /\ progressOf \in {"sync", "clear"}
  /\ \E total \in 0..MaxTotal : \E amount \in 0..total :
       /\ total = progressTotal \/ amount = progressAmount
       /\ progressAmount' = amount
       /\ progressTotal' = total
       /\ IF total = 0
            THEN UNCHANGED <<percent, emitted>>
            ELSE ProgressUpdate(MathRoundTimes10(amount, total))
  /\ UNCHANGED <<progressOf, copyCount, ended>>
  /\ UNCHANGED notProgVars

(* The 'end' event of the copy of filesToSync[index] *)
CopyObjectEnd(index) ==
  /\ progressOf = "metadata"
  /\ index \in (0..(copyCount - 1)) \ ended
  /\ ended' = ended \cup {index}
  /\ ProgressUpdate(MathRoundTimes10(index, copyCount))
  /\ UNCHANGED <<progressOf, copyCount, progressAmount, progressTotal>>
  /\ UNCHANGED notProgVars

NextProgress ==
  \/ UploaderProgress
  \/ \E index \in 0..(MaxFiles - 1) : CopyObjectEnd(index)

SpecProgress == InitProgress /\ [][NextProgress]_vars

----------------------------------------------------------------------------
(* Properties *)

(* No callback is runnable and none will become runnable *)
Quiescent == ~ENABLED Next

IssuedFor(p, t) == { x[3] : x \in { y \in issued : y[1] = p /\ y[2] = t } }

EnvFailures == {"rej_resolve", "rej_precmd", "rej_tagread", "rej_tagwrite"}

(* C1: for a target with enabled = false no bucket resolution and no     *)
(* external operation of any kind is issued, in any orchestrator.        *)
C1_DisabledTargetIssuesNothing ==
  \A t \in Targets :
    Disabled(cfg[t]) =>
      /\ resolveCalls[t] = 0
      /\ \A p \in Phases : IssuedFor(p, t) = {}

(* C2: a disabled target never makes sync, syncMetadata or               *)
(* syncBucketTags fail: a rejected orchestrator has an enabled target    *)
(* that failed (or threw on one).                                        *)
C2_DisabledTargetNeverFails ==
  \A p \in {"sync", "metadata", "tags"} :
    result[p] = "rejected" =>
      \/ p \in threw
      \/ \E t \in Targets : ~Disabled(cfg[t]) /\ tstate[p][t] \in Rejected

C4_AtMostFiveCopiesInFlight ==
  \A t \in Targets : copiesInFlight[t] <= maxAsyncS3

(* C5: when an upload, delete or copy of a target has signalled an       *)
(* error, the promise of its orchestrator ends rejected: once the run    *)
(* can make no further step (and the process is alive) it is rejected.   *)
C5_TransferErrorRejects ==
  \A p \in Phases :
    (Quiescent /\ ~halted /\ \E t \in Targets : tstate[p][t] = "thrown")
      => result[p] = "rejected"

(* C6: a configuration error of one target leaves every other valid      *)
(* enabled target of sync, syncMetadata and syncBucketTags visited, and  *)
(* at the end of the run settled.                                        *)
C6_ConfigErrorIsolated ==
  \A p \in {"sync", "metadata", "tags"} :
    (p \in started /\ \E t \in Targets : ~Disabled(cfg[t]) /\ InvalidConfig(cfg[t]))
      => \A u \in Targets :
           (~Disabled(cfg[u]) /\ ~InvalidConfig(cfg[u])) => tstate[p][u] # "init"

(* No step removes an issued operation or changes a settled target. *)
C7_NoRollback ==
  [][ /\ issued \subseteq issued'
      /\ \A p \in Phases, t \in Targets :
           tstate[p][t] \in Fulfilled \cup Rejected => tstate'[p][t] = tstate[p][t]
    ]_vars

(* C7: when a target has failed by bucket resolution, pre-command or tag *)
(* read/write, its orchestrator is rejected (at the latest by the        *)
(* reaction already queued), and once the run can make no further step   *)
(* every other enabled, validly configured target of the orchestrator    *)
(* has been visited and has settled: completed, or failed on its own.    *)
C7_NoShortCircuit ==
  \A p \in Phases, t \in Targets :
    tstate[p][t] \in EnvFailures =>
      /\ result[p] = "rejected" \/ SettleDue(p)
      /\ Quiescent =>
           \A u \in Targets \ {t} :
             (~Disabled(cfg[u]) /\ ~InvalidConfig(cfg[u]))
               => tstate[p][u] \in Fulfilled \cup Rejected

(* C8: the promise of an orchestrator is fulfilled only when every       *)
(* target of it is settled and every target that issued an operation in  *)
(* it has completed: uploader ended, every copy ended, tags written.     *)
C8_JoinBeforeSuccess ==
  \A p \in Phases :
    result[p] = "resolved" =>
      \A t \in Targets :
        /\ tstate[p][t] \in Fulfilled
        /\ IssuedFor(p, t) \ {"describeStacks"} # {} => tstate[p][t] = "done"
        /\ p = "metadata" => copiesInFlight[t] = 0

C8_Witness ==
  \E p \in Phases :
    /\ result[p] = "resolved"
    /\ \A t \in Targets : tstate[p][t] = "done"

(* C9: in the deploy/offline hook nothing of syncMetadata is issued      *)
(* before sync is fulfilled with every uploader ended, nothing of        *)
(* syncBucketTags before syncMetadata is fulfilled with every copy       *)
(* ended, and a rejected orchestrator is followed by none.               *)
C9_PhaseOrder ==
  hook = "deploy" =>
    /\ ("metadata" \in started \/ \E x \in issued : x[1] = "metadata")
         => /\ result["sync"] = "resolved"
            /\ \A t \in Targets : tstate["sync"][t] \in Fulfilled
    /\ ("tags" \in started \/ \E x \in issued : x[1] = "tags")
         => /\ result["metadata"] = "resolved"
            /\ \A t \in Targets :
                 tstate["metadata"][t] \in Fulfilled /\ copiesInFlight[t] = 0
    /\ \A p \in {"sync", "metadata"} :
         result[p] = "rejected" => NextPhase(p) \notin started

C9_Witness ==
  /\ hook = "deploy"
  /\ \E t, u, v \in Targets :
       /\ <<"sync", t, "uploadDir">> \in issued
       /\ <<"metadata", u, "copyObject">> \in issued
       /\ <<"tags", v, "putBucketTagging">> \in issued

(* C10: a configured preCommand is run only after the bucket is resolved *)
(* (and selected); uploadDir is started only after it has exited with 0; *)
(* after a non-zero exit no uploadDir is ever issued for the target, its *)
(* promise is rejected and so is sync.                                   *)
C10_PreCommandGate ==
  \A t \in Targets :
    cfg[t].preCommand =>
      /\ "preCommand" \in IssuedFor("sync", t)
           => tstate["sync"][t] \in {"preCommand", "running", "done", "thrown", "rej_precmd"}
      /\ "uploadDir" \in IssuedFor("sync", t) => preExit[t] = "ok"
      /\ preExit[t] = "fail" =>
           /\ "uploadDir" \notin IssuedFor("sync", t)
           /\ tstate["sync"][t] = "rej_precmd"
           /\ result["sync"] = "rejected" \/ SettleDue("sync")

C10_Witness ==
  \E t, u \in Targets :
    /\ preExit[t] = "fail"
    /\ result["sync"] = "rejected"
    /\ preExit[u] = "ok"
    /\ "uploadDir" \in IssuedFor("sync", u)

(* C11: while the preCommand of one target is executing, another target  *)
(* of the same sync whose bucket name is resolved or whose uploader is   *)
(* running can take its next step.                                       *)
C11_PreCommandBlocksOnlyOwnTarget ==
  \A t, u \in Targets :
    (t # u /\ ~halted /\ tstate["sync"][t] = "preCommand") =>
      /\ tstate["sync"][u] = "resolving" => ENABLED SyncThen(u)
      /\ tstate["sync"][u] = "running" => ENABLED UploaderEnd("sync", u)

(* The rules of s.params whose glob matches f, those of them that set    *)
(* key k, and the bag they accumulate: each key with the value of the    *)
(* last matching rule that sets it.                                      *)
MatchingRules(f) == { i \in DOMAIN params : Minimatch(f, params[i].glob) }

Setters(f, k) == { i \in MatchingRules(f) : k \in DOMAIN params[i].bag }

LastSetter(f, k) == CHOOSE i \in Setters(f, k) : \A j \in Setters(f, k) : j <= i

AccumulatedBag(f) ==
  [k \in { x \in PropKeys : Setters(f, x) # {} } |-> params[LastSetter(f, k)].bag[k]]

UploadAnswered(f) == f \in FileNames /\ f \in called

(* C12: in the bag getS3Params hands back for an included file, every    *)
(* transfer key set by a matching rule is present, with the value of the *)
(* last-declared matching rule that sets it: a later rule overwrites an  *)
(* earlier one, and a key only an earlier rule sets is kept.             *)
C12_LaterRuleWins ==
  \A f \in FileNames :
    (UploadAnswered(f) /\ s3Params[f].included) =>
      \A i \in MatchingRules(f) :
        \A k \in DOMAIN params[i].bag \ {"OnlyForEnv"} :
          /\ k \in DOMAIN s3Params[f].bag
          /\ (\A j \in Setters(f, k) : j <= i)
               => s3Params[f].bag[k] = params[i].bag[k]

C12_Witness ==
  \E f \in FileNames :
    /\ UploadAnswered(f) /\ s3Params[f].included
    /\ Len(params) = 2
    /\ MatchingRules(f) = {1, 2}
    /\ "CacheControl" \in DOMAIN params[1].bag \cap DOMAIN params[2].bag
    /\ params[1].bag["CacheControl"] # params[2].bag["CacheControl"]
    /\ "ContentEncoding" \in DOMAIN params[1].bag \ DOMAIN params[2].bag
    /\ s3Params[f].bag["CacheControl"] = params[2].bag["CacheControl"]
    /\ "ContentEncoding" \in DOMAIN s3Params[f].bag

(* The entry of filesToSync as the copy reads it, on a POSIX host *)
EntryAsCopyFile(entry) == [base |-> entry.name, sep |-> "/", params |-> entry.params]

(* C13: the key OnlyForEnv is in no bag getS3Params hands back, in no    *)
(* entry of filesToSync and in the params of no copyObject built from    *)
(* one, whatever the rules and the environment.                          *)
C13_OnlyForEnvNeverLeaves ==
  /\ \A f \in FileNames :
       UploadAnswered(f) => "OnlyForEnv" \notin DOMAIN s3Params[f].bag
  /\ \A i \in DOMAIN ruleFiles :
       /\ "OnlyForEnv" \notin DOMAIN ruleFiles[i].params
       /\ \A dct \in {<< >>, <<"text/html">>} :
            "OnlyForEnv" \notin DOMAIN CopyObjectParams(
               [bucketPrefix |-> <<"a">>, acl |-> << >>, defaultContentType |-> dct],
               EntryAsCopyFile(ruleFiles[i]))

C13_Witness ==
  /\ Len(params) = 1
  /\ params[1].glob = "*"
  /\ DOMAIN params[1].bag = {"OnlyForEnv"}
  /\ params[1].bag["OnlyForEnv"] = env
  /\ UploadAnswered("app.js")
  /\ s3Params["app.js"] = [included |-> TRUE, bag |-> EmptyBag]
  /\ "syncMetadata" \in called
  /\ "app.js" \in { ruleFiles[i].name : i \in DOMAIN ruleFiles }

(* C14: getS3Params excludes a file exactly when the bag accumulated     *)
(* over its matching rules holds OnlyForEnv with a value other than the  *)
(* current environment; otherwise it hands back the accumulated bag      *)
(* without OnlyForEnv, which is empty for a file no rule matches.        *)
C14_ExcludedExactlyOnMismatch ==
  \A f \in FileNames :
    UploadAnswered(f) =>
      LET acc == AccumulatedBag(f)
          mismatch == "OnlyForEnv" \in DOMAIN acc /\ acc["OnlyForEnv"] # env
      IN /\ s3Params[f].included <=> ~mismatch
         /\ ~mismatch =>
              s3Params[f].bag = [k \in DOMAIN acc \ {"OnlyForEnv"} |-> acc[k]]
         /\ MatchingRules(f) = {} => s3Params[f].bag = EmptyBag

C14_Witness ==
  /\ UploadAnswered("app.js") /\ UploadAnswered("index.html")
  /\ Len(params) = 2
  /\ params[1].glob = "*.js" /\ DOMAIN params[1].bag = {"CacheControl"}
  /\ params[2].glob = "*" /\ DOMAIN params[2].bag = {"OnlyForEnv"}
  /\ params[2].bag["OnlyForEnv"] = env
  /\ s3Params["app.js"] = [included |-> TRUE, bag |-> params[1].bag]
  /\ s3Params["index.html"] = [included |-> TRUE, bag |-> EmptyBag]

RuleFileNames == { ruleFiles[i].name : i \in DOMAIN ruleFiles }

(* C15: a local file matched by at least one rule is in filesToSync of   *)
(* syncMetadata exactly when getS3Params includes it, and its entry      *)
(* carries the bag getS3Params hands back for it.                        *)
C15_MetadataUsesUploadMatcher ==
  \A f \in FileNames :
    (UploadAnswered(f) /\ "syncMetadata" \in called /\ MatchingRules(f) # {}) =>
      /\ f \in RuleFileNames <=> s3Params[f].included
      /\ \A i \in DOMAIN ruleFiles :
           (ruleFiles[i].name = f /\ s3Params[f].included)
             => ruleFiles[i].params = s3Params[f].bag

(* The path of the file relative to localDir, as an object key *)
RelativeKey(f) == ToS3Path(<<"d", f.sep, f.base>>, f.sep)

(* C16: the copy is in place with full replacement: CopySource is the    *)
(* bucket name, a slash and the very Key of the copy, Bucket is that     *)
(* bucket, MetadataDirective is REPLACE, and none of CopySource, Key,    *)
(* Bucket, ACL and MetadataDirective carries a value of the rule's bag.  *)
C16_CopyInPlace ==
  "copyObject" \in built =>
    /\ copyParams["CopySource"] = BucketNameString \o <<"/">> \o copyParams["Key"]
    /\ copyParams["Bucket"] = BucketNameString
    /\ copyParams["MetadataDirective"] = <<"REPLACE">>
    /\ copyParams["ACL"] = (IF target.acl = << >> THEN <<"private">> ELSE target.acl)
    /\ \A k \in {"CopySource", "Key", "Bucket", "ACL", "MetadataDirective"} :
         copyParams[k] # <<"fromRule">>

C16_Witness ==
  /\ "copyObject" \in built
  /\ target.bucketPrefix = <<"/", "a", "/">>
  /\ DOMAIN file.params = CopyBagKeys
  /\ copyParams["Key"] = <<"a", "/">> \o RelativeKey(file)
  /\ copyParams["CopySource"] = <<"bucket", "/", "a", "/">> \o RelativeKey(file)

(* C17: the ContentType of the copy is the one of the file's params if   *)
(* there is one, else the detected MIME type if there is one, else the   *)
(* target's defaultContentType if there is one, else it is absent.       *)
C17_ContentTypePrecedence ==
  "copyObject" \in built =>
    IF "ContentType" \in DOMAIN file.params
    THEN copyParams["ContentType"] = file.params["ContentType"]
    ELSE IF MimeGetType(file) # << >>
    THEN copyParams["ContentType"] = MimeGetType(file)
    ELSE IF target.defaultContentType # << >>
    THEN copyParams["ContentType"] = target.defaultContentType
    ELSE "ContentType" \notin DOMAIN copyParams

C17_Witness ==
  /\ "copyObject" \in built
  /\ "ContentType" \notin DOMAIN file.params
  /\ MimeGetType(file) # << >>
  /\ target.defaultContentType # << >>
  /\ copyParams["ContentType"] = MimeGetType(file)

(* The key an upload with the given Prefix writes the file to: the       *)
(* prefix, closed by a slash when it is not empty, and the relative path *)
UploadedKey(prefix, f) ==
  (IF prefix = << >> \/ prefix[Len(prefix)] = "/" THEN prefix ELSE prefix \o <<"/">>)
    \o RelativeKey(f)

(* C18: uploadDir and deleteDir get the same Prefix, and the Key of the  *)
(* file's metadata copy is the key its upload wrote: that prefix joined  *)
(* with the relative path of the file.                                   *)
C18_SamePrefixInEveryPhase ==
  built = {"copyObject", "uploadDir", "deleteDir"} =>
    /\ phasePrefix.uploadDir = phasePrefix.deleteDir
    /\ copyParams["Key"] = UploadedKey(phasePrefix.uploadDir, file)

DesiredKeys == { tagsToMerge[i].Key : i \in DOMAIN tagsToMerge }

(* C19: merging the desired tags into the result of merging them leaves  *)
(* the tag set as it is: same entries, same values, same order.          *)
C19_MergeIdempotent ==
  [][merges >= 1 => existingTagSet' = existingTagSet]_vars

C19_Witness ==
  /\ merges = 2
  /\ Len(tagSetRead) = 2
  /\ Len(tagsToMerge) = 2
  /\ Len(existingTagSet) = 3
  /\ \E i \in DOMAIN tagSetRead : existingTagSet[i].Value # tagSetRead[i].Value
  /\ existingTagSet = MergeTags(tagSetRead, tagsToMerge)

(* C20: after a merge the tag set is at least as long as the one read,   *)
(* every entry read is still at its position with its key, and an entry  *)
(* whose key is not among the desired keys has its original value.       *)
C20_MergeKeepsUntouched ==
  merges >= 1 =>
    /\ Len(existingTagSet) >= Len(tagSetRead)
    /\ \A i \in DOMAIN tagSetRead :
         /\ existingTagSet[i].Key = tagSetRead[i].Key
         /\ tagSetRead[i].Key \notin DesiredKeys => existingTagSet[i] = tagSetRead[i]

C20_Witness ==
  /\ merges = 1
  /\ Len(tagSetRead) = 2
  /\ tagSetRead[1].Key \notin DesiredKeys
  /\ tagSetRead[2].Key \in DesiredKeys
  /\ existingTagSet[1] = tagSetRead[1]
  /\ existingTagSet[2] # tagSetRead[2]

ReadKeys == { tagSetRead[i].Key : i \in DOMAIN tagSetRead }

(* The desired tags whose key the tag set read does not hold, in order *)
NewTags == SelectSeq(tagsToMerge, LAMBDA tag : tag.Key \notin ReadKeys)

(* C21: after a merge every desired tag is an entry of the set; the set  *)
(* is the set read, entry for entry with the same keys, followed by the  *)
(* desired tags whose key was not read, one entry each, in the desired   *)
(* order: a key that was read gets no second entry.                      *)
C21_MergeResult ==
  merges >= 1 =>
    /\ \A j \in DOMAIN tagsToMerge :
         \E i \in DOMAIN existingTagSet : existingTagSet[i] = tagsToMerge[j]
    /\ Len(existingTagSet) = Len(tagSetRead) + Len(NewTags)
    /\ \A i \in DOMAIN tagSetRead : existingTagSet[i].Key = tagSetRead[i].Key
    /\ SubSeq(existingTagSet, Len(tagSetRead) + 1, Len(existingTagSet)) = NewTags

C21_Witness ==
  /\ merges = 1
  /\ Len(tagSetRead) = 1
  /\ Len(tagsToMerge) = 2
  /\ tagsToMerge[2].Key = tagSetRead[1].Key
  /\ tagsToMerge[2].Value # tagSetRead[1].Value
  /\ existingTagSet = <<tagsToMerge[2], tagsToMerge[1]>>

KeysOf(ts) == { ts[i].Key : i \in DOMAIN ts }
TagsOf(ts) == { ts[i] : i \in DOMAIN ts }

(* C22: the tag phase of a target is a sequential read-merge-write: its    *)
(* putBucketTagging is issued only after its getBucketTagging completed,   *)
(* it carries every tag the target wants together with every tag read in   *)
(* that run whose key the target does not set, and nothing else; when the  *)
(* read fails no write is issued.                                          *)
C22_ReadMergeWrite ==
  \A w \in TagWriters :
    /\ tagCall[w] \in {"init", "reading", "rej_tagread"} => putTagSet[w] = {}
    /\ \A put \in putTagSet[w] :
         /\ tagCall[w] \in {"writing", "done", "rej_tagwrite"}
         /\ \E read \in readTagSet[w] :
              /\ TagsOf(desiredTags[w]) \subseteq TagsOf(put)
              /\ \A tag \in TagsOf(read) :
                   tag.Key \notin KeysOf(desiredTags[w]) => tag \in TagsOf(put)
              /\ TagsOf(put) \subseteq TagsOf(desiredTags[w]) \cup TagsOf(read)
              /\ Len(put) = Cardinality(KeysOf(read) \cup KeysOf(desiredTags[w]))

C22_Witness ==
  \E w \in TagWriters :
    /\ tagCall[w] = "done"
    /\ \E read \in readTagSet[w], put \in putTagSet[w] :
         /\ Len(read) = 1
         /\ Len(put) = 3
         /\ bucketTagSet = put
    /\ \E v \in TagWriters : tagCall[v] = "rej_tagread" /\ putTagSet[v] = {}

(* C23: after a successful sync of a target whose deleteRemoved is true or *)
(* omitted, no object under the prefix lacks a local file and every object *)
(* that had a local file is still there; with deleteRemoved false the sync *)
(* deletes nothing, whether it ends or fails.                              *)
C23_DeletionReconciliation ==
  /\ (uploadEnded = "end" /\ FALSE \notin deleteRemoved) =>
       /\ (remoteListed \ localKeys) \cap remoteKeys = {}
       /\ (remoteListed \cap localKeys) \subseteq remoteKeys
  /\ (uploadEnded # "none" /\ FALSE \in deleteRemoved) =>
       remoteListed \subseteq remoteKeys

C23_Witness ==
  /\ uploadEnded = "end"
  /\ deleteRemoved = {}
  /\ remoteListed = {"index.html", "old.js"}
  /\ localKeys = {"index.html", "app.js"}
  /\ remoteKeys = {"index.html", "app.js"}

FloorTimes10(amount, total) == ((10 * amount) \div total) * 10

(* C24: a percentage reported for the upload or the clear phase equals     *)
(* floor(completed / total * 10) * 10 of the event that reports it, and    *)
(* 100 is never reported while completed < total.                          *)
C24_ReportedIsFloor ==
  [][(progressOf \in {"sync", "clear"} /\ emitted' # emitted) =>
       /\ percent' = FloorTimes10(progressAmount', progressTotal')
       /\ percent' = 100 => progressAmount' = progressTotal']_vars

C26_MetadataByCount ==
  (progressOf = "metadata" /\ copyCount > 0) =>
    /\ percent \in { FloorTimes10(Cardinality(ended), copyCount),
                     MathRoundTimes10(Cardinality(ended), copyCount) }
    /\ Cardinality(ended) = copyCount => percent = 100

FilteredPhases == {"sync", "metadata", "tags"}

Named(p, t) == resolved[p][t] \notin {Unsettled, ""}

(* C27: with the bucket option set, sync, syncMetadata and syncBucketTags  *)
(* issue a pre-command or an object-store operation only for a target      *)
(* whose resolved bucket name equals the option; a target that resolved to *)
(* another name issues none and is fulfilled; when every target resolved   *)
(* to another name the orchestrator is not rejected and ends resolved.     *)
C27_BucketOptionFilter ==
  optBucket # "" =>
    \A p \in FilteredPhases :
      /\ \A t \in Targets :
           /\ IssuedFor(p, t) \ {"describeStacks"} # {} =>
                resolved[p][t] = optBucket
           /\ (Named(p, t) /\ resolved[p][t] # optBucket) =>
                /\ tstate[p][t] \in Fulfilled
                /\ IssuedFor(p, t) \ {"describeStacks"} = {}
      /\ (\A t \in Targets : Named(p, t) /\ resolved[p][t] # optBucket) =>
           /\ result[p] # "rejected"
           /\ Quiescent => result[p] = "resolved"

C27_Witness ==
  /\ optBucket = LiteralBucket
  /\ hook = "cmdSync"
  /\ cfg[2].preCommand
  /\ resolved["sync"][1] = LiteralBucket
  /\ resolved["sync"][2] = OutputBucket
  /\ tstate["sync"][1] = "done"
  /\ tstate["sync"][2] = "skipped"
  /\ IssuedFor("sync", 2) = {"describeStacks"}
  /\ result["sync"] = "resolved"

LifecycleHooks == {"deploy", "remove"}

(* C28 as stated: when noSync is set the run performs no sync operation,   *)
(* whichever lifecycle hook or s3sync command triggers it.                 *)
C28_NoSyncSkipsEveryRun ==
  noSync => started = {} /\ issued = {}

(* C28: when noSync is set, a run triggered by a lifecycle hook (deploy,   *)
(* offline start, remove) calls no orchestrator and issues no operation;   *)
(* a run triggered by an s3sync command calls its orchestrator whatever    *)
(* noSync is.                                                              *)
C28_NoSyncSkipsLifecycleHooks ==
  /\ (noSync /\ hook \in LifecycleHooks) => started = {} /\ issued = {}
  /\ (fired /\ hook \notin LifecycleHooks) => FirstPhase(hook) \in started

C28_Witness ==
  /\ noSync
  /\ fired
  /\ hook = "deploy"
  /\ started = {}
  /\ \A t \in Targets : ~Disabled(cfg[t]) /\ ~InvalidConfig(cfg[t])

(* C29: a target with a literal bucketName resolves to that name without   *)
(* any lookup, bucketNameKey set or not; a target with neither field fails *)
(* to resolve; a target with only bucketNameKey issues a lookup, resolves  *)
(* to the value of the stack output with that key and to nothing else, and *)
(* fails when the stack has no output with that key.                       *)
C29_BucketResolution ==
  \A p \in Phases : \A t \in Targets :
    resolved[p][t] # Unsettled =>
      /\ cfg[t].bucketName # "" =>
           /\ resolved[p][t] = cfg[t].bucketName
           /\ lookups[t] = 0
           /\ "describeStacks" \notin IssuedFor(p, t)
      /\ NoIdentity(cfg[t]) => resolved[p][t] = ""
      /\ (cfg[t].bucketName = "" /\ cfg[t].bucketNameKey # "") =>
           /\ "describeStacks" \in IssuedFor(p, t)
           /\ resolved[p][t] \in {OutputBucket, ""}
           /\ cfg[t].bucketNameKey \notin stackOutputs => resolved[p][t] = ""

C29_Witness ==
  /\ hook = "remove"
  /\ cfg[1].bucketName = LiteralBucket /\ cfg[1].bucketNameKey = "BucketKey"
  /\ cfg[2].bucketName = "" /\ cfg[2].bucketNameKey = "BucketKey"
  /\ resolved["clear"][1] = LiteralBucket
  /\ resolved["clear"][2] = OutputBucket
  /\ lookups = <<0, 1>>

(* One copyObject is issued per entry of filesToSync *)
CopiesOf(f) == Cardinality({ i \in DOMAIN ruleFiles : ruleFiles[i].name = f })

(* C30: in one syncMetadata run exactly one copyObject is issued for each  *)
(* local file that at least one rule matches and that OnlyForEnv does not  *)
(* exclude, however many rules match it, and none for a file no rule       *)
(* matches or that OnlyForEnv excludes.                                    *)
C30_OneCopyPerIncludedFile ==
  \A f \in FileNames :
    (UploadAnswered(f) /\ "syncMetadata" \in called) =>
      CopiesOf(f) =
        (IF MatchingRules(f) # {} /\ s3Params[f].included THEN 1 ELSE 0)

AllDesiredKeys == UNION { KeysOf(desiredTags[w]) : w \in TagWriters }

(* The targets do not want different values for one key *)
DesiresAgree ==
  \A v \in TagWriters, w \in TagWriters :
    \A a \in TagsOf(desiredTags[v]), b \in TagsOf(desiredTags[w]) :
      a.Key = b.Key => a.Value = b.Value

(* C31: when the targets that resolved to one bucket have all written      *)
(* their tags successfully, the bucket holds every tag each of them wants  *)
(* and every tag read whose key none of them sets, whatever the order of   *)
(* their reads and writes.                                                 *)
C31_NoLostTagUpdate ==
  (DesiresAgree /\ \A w \in TagWriters : tagCall[w] = "done") =>
    \A w \in TagWriters :
      /\ TagsOf(desiredTags[w]) \subseteq TagsOf(bucketTagSet)
      /\ \A read \in readTagSet[w] : \A tag \in TagsOf(read) :
           tag.Key \notin AllDesiredKeys => tag \in TagsOf(bucketTagSet)

(* C32: for a target that declares no bucketTags, syncBucketTags calls no  *)
(* getBucketName, issues no lookup, no tag read and no tag write, and the  *)
(* target (one with a bucket identity) is fulfilled; in a run in which no  *)
(* target declares bucketTags the orchestrator issues no call at all.      *)
C32_NoTagsNoCalls ==
  "tags" \in started =>
    /\ \A t \in Targets :
         ~cfg[t].bucketTags =>
           /\ resolved["tags"][t] = Unsettled
           /\ IssuedFor("tags", t) = {}
           /\ ~NoIdentity(cfg[t]) => tstate["tags"][t] = "skipped"
    /\ (\A t \in Targets : ~cfg[t].bucketTags) =>
         \A x \in issued : x[1] # "tags"

C32_Witness ==
  /\ hook = "deploy"
  /\ result["tags"] = "resolved"
  /\ ~cfg[1].bucketTags
  /\ cfg[1].bucketName = "" /\ cfg[1].bucketNameKey = "BucketKey"
  /\ tstate["tags"][1] = "skipped"
  /\ cfg[2].bucketTags
  /\ tstate["tags"][2] = "done"
  /\ IssuedFor("tags", 2) = {"getBucketTagging", "putBucketTagging"}

(* The targets the bucket-option filter of p has dropped *)
Filtered(p, t) ==
  /\ optBucket # ""
  /\ tstate[p][t] = "skipped"
  /\ p = "tags" => cfg[t].bucketTags

(* C33: the bucket name is resolved before the bucket-option filter is     *)
(* applied: a target the filter drops has resolved to another name, and    *)
(* with the bucket option set a target whose lookup fails is rejected and  *)
(* makes sync, syncMetadata or syncBucketTags fail, whatever bucket the    *)
(* option names.                                                           *)
C33_ResolutionBeforeFilter ==
  \A p \in FilteredPhases : \A t \in Targets :
    /\ Filtered(p, t) => Named(p, t) /\ resolved[p][t] # optBucket
    /\ (optBucket # "" /\ resolved[p][t] = "") =>
         /\ tstate[p][t] = "rej_resolve"
         /\ IssuedFor(p, t) = {"describeStacks"}
         /\ result[p] # "resolved"
         /\ (Quiescent /\ ~halted) => result[p] = "rejected"

C33_Witness ==
  /\ hook = "cmdMetadata"
  /\ optBucket = LiteralBucket
  /\ cfg[1].bucketName = LiteralBucket
  /\ tstate["metadata"][1] = "done"
  /\ cfg[2].bucketName = "" /\ cfg[2].bucketNameKey = "BucketKey"
  /\ "BucketKey" \notin stackOutputs
  /\ resolved["metadata"][2] = ""
  /\ result["metadata"] = "rejected"

UniqueKeys(ts) == \A i \in DOMAIN ts, j \in DOMAIN ts : ts[i].Key = ts[j].Key => i = j

(* C34: if no two entries of the tag set read from the bucket have the     *)
(* same key, no two entries of the tag set written back have the same key, *)
(* and it has as many entries as there are distinct keys among the keys    *)
(* read and the desired keys.                                              *)
C34_KeysStayUnique ==
  (merges >= 1 /\ UniqueKeys(tagSetRead)) =>
    /\ UniqueKeys(existingTagSet)
    /\ Len(existingTagSet) = Cardinality(ReadKeys \cup DesiredKeys)

C34_Witness ==
  /\ merges = 1
  /\ Len(tagSetRead) = 2
  /\ UniqueKeys(tagSetRead)
  /\ Len(tagsToMerge) = 2
  /\ Cardinality(ReadKeys \cap DesiredKeys) = 1
  /\ Len(existingTagSet) = 3
====
